---- MODULE Spec2Model ----
(***************************************************************************)
(* Report generation pipeline of main.py: column auto-detection            *)
(* (auto_detect_columns), chart configuration resolution                   *)
(* (get_chart_config) and the bar / pie / line chart builders of           *)
(* generate_report, followed by report assembly.                           *)
(*                                                                         *)
(* Python strings are TLA+ strings; Chars gives their characters where the *)
(* code looks inside a string (substring tests, lower(), title()).         *)
(* Python values that a YAML configuration can hold are tagged records     *)
(* (Str, IntV, BoolV, ListV, None).  A DataFrame is a sequence of typed       *)
(* columns and a sequence of rows; a cell is Null (NaN) or a natural       *)
(* number (for an object column the number is the rank of the text value   *)
(* in sorted order).                                                       *)
(***************************************************************************)
EXTENDS Integers, Sequences, FiniteSets, TLC

(* ----------------------------- bounds ---------------------------------- *)
\* leading rows of a table of the classification inputs
MaxRows == 3
\* all-null rows that may follow them
MaxPad == 7
\* columns of a table of the classification inputs
MaxCols == 2
\* rows of a table of the aggregation inputs
MaxAggRows == 2
\* largest cell of the value column of the aggregation inputs
MaxVal == 2
\* largest cell of the category column of the aggregation inputs
MaxCat == 3
\* largest top_n configured in the aggregation inputs
MaxTopN == 1
\* groups of the table with more groups than the default top_n
ManyGroups == 16
\* rows of the tables whose categorical columns differ in cardinality
CardRows == 9
\* groups of the table with more groups than the line chart keeps
LineGroups == 22
\* report runs of one scheduler process
MaxRuns == 2

(* ------------------------- Python values ------------------------------- *)
None == [t |-> "none", s |-> "", n |-> 0, l |-> <<>>]
Str(x) == [t |-> "str", s |-> x, n |-> 0, l |-> <<>>]
IntV(x) == [t |-> "int", s |-> "", n |-> x, l |-> <<>>]
BoolV(b) == [t |-> "bool", s |-> "", n |-> IF b THEN 1 ELSE 0, l |-> <<>>]
ListV(x) == [t |-> "list", s |-> "", n |-> 0, l |-> x]

\* bool(v): None, "", 0, False and [] are falsy
Truthy(v) ==
  CASE v.t = "none" -> FALSE
    [] v.t = "str" -> v.s # ""
    [] v.t = "int" -> v.n # 0
    [] v.t = "bool" -> v.n # 0
    [] v.t = "list" -> v.l # <<>>

\* a or b
Or(a, b) == IF Truthy(a) THEN a ELSE b

EmptyDict == << >>

\* d.get(k, default)
Get(d, k, default) == IF k \in DOMAIN d THEN d[k] ELSE default

Min(a, b) == IF a < b THEN a ELSE b

\* seq[:k]
Head_n(seq, k) == SubSeq(seq, 1, Min(k, Len(seq)))

(* --------------------------- strings ----------------------------------- *)
\* the characters of a string
Chars(s) ==
  CASE s = "" -> <<>>
    [] s = "auto" -> <<"a", "u", "t", "o">>
    [] s = "date" -> <<"d", "a", "t", "e">>
    [] s = "time" -> <<"t", "i", "m", "e">>
    [] s = "category" -> <<"c", "a", "t", "e", "g", "o", "r", "y">>
    [] s = "value" -> <<"v", "a", "l", "u", "e">>
    [] s = "y_col" -> <<"y", "_", "c", "o", "l">>
    [] s = "x_col" -> <<"x", "_", "c", "o", "l">>
    [] s = "y_columns" -> <<"y", "_", "c", "o", "l", "u", "m", "n", "s">>
    [] s = "title" -> <<"t", "i", "t", "l", "e">>
    [] s = "category_column" -> <<"c", "a", "t", "e", "g", "o", "r", "y", "_", "c", "o", "l", "u", "m", "n">>
    [] s = "value_column" -> <<"v", "a", "l", "u", "e", "_", "c", "o", "l", "u", "m", "n">>
    [] s = "x_column" -> <<"x", "_", "c", "o", "l", "u", "m", "n">>
    [] s = "aggregation" -> <<"a", "g", "g", "r", "e", "g", "a", "t", "i", "o", "n">>
    [] s = "top_n" -> <<"t", "o", "p", "_", "n">>
    [] s = "enabled" -> <<"e", "n", "a", "b", "l", "e", "d">>
    [] s = "value_category" -> <<"v", "a", "l", "u", "e", "_", "c", "a", "t", "e", "g", "o", "r", "y">>
    [] s = "color" -> <<"c", "o", "l", "o", "r">>
    [] s = "region" -> <<"r", "e", "g", "i", "o", "n">>
    [] s = "status" -> <<"s", "t", "a", "t", "u", "s">>
    [] s = "sales" -> <<"s", "a", "l", "e", "s">>
    [] s = "cost" -> <<"c", "o", "s", "t">>
    [] s = "Order_Date" -> <<"O", "r", "d", "e", "r", "_", "D", "a", "t", "e">>
    [] s = "time_ms" -> <<"t", "i", "m", "e", "_", "m", "s">>
    [] s = "updated" -> <<"u", "p", "d", "a", "t", "e", "d">>
    [] s = "missing_col" -> <<"m", "i", "s", "s", "i", "n", "g", "_", "c", "o", "l">>
    [] s = "sum" -> <<"s", "u", "m">>
    [] s = "mean" -> <<"m", "e", "a", "n">>
    [] s = "count" -> <<"c", "o", "u", "n", "t">>
    [] s = "Other" -> <<"O", "t", "h", "e", "r">>
    [] s = " by " -> <<" ", "b", "y", " ">>
    [] s = "Numeric Trends Comparison" ->
         <<"N","u","m","e","r","i","c"," ","T","r","e","n","d","s"," ",
           "C","o","m","p","a","r","i","s","o","n">>
    [] s = "Data Summary" -> <<"D","a","t","a"," ","S","u","m","m","a","r","y">>
    [] s = "My Chart" -> <<"M", "y", " ", "C", "h", "a", "r", "t">>
    [] s = "monday" -> <<"m", "o", "n", "d", "a", "y">>
    [] s = "tuesday" -> <<"t", "u", "e", "s", "d", "a", "y">>
    [] s = "wednesday" -> <<"w", "e", "d", "n", "e", "s", "d", "a", "y">>
    [] s = "thursday" -> <<"t", "h", "u", "r", "s", "d", "a", "y">>
    [] s = "friday" -> <<"f", "r", "i", "d", "a", "y">>
    [] s = "saturday" -> <<"s", "a", "t", "u", "r", "d", "a", "y">>
    [] s = "sunday" -> <<"s", "u", "n", "d", "a", "y">>
    [] s = "Friday" -> <<"F", "r", "i", "d", "a", "y">>
    [] s = "funday" -> <<"f", "u", "n", "d", "a", "y">>

UpperAlpha == <<"A","B","C","D","E","F","G","H","I","J","K","L","M",
                "N","O","P","Q","R","S","T","U","V","W","X","Y","Z">>
LowerAlpha == <<"a","b","c","d","e","f","g","h","i","j","k","l","m",
                "n","o","p","q","r","s","t","u","v","w","x","y","z">>

IsUpper(c) == \E i \in 1..26 : UpperAlpha[i] = c
IsLower(c) == \E i \in 1..26 : LowerAlpha[i] = c
LowerChar(c) ==
  IF IsUpper(c) THEN LowerAlpha[CHOOSE i \in 1..26 : UpperAlpha[i] = c] ELSE c
UpperChar(c) ==
  IF IsLower(c) THEN UpperAlpha[CHOOSE i \in 1..26 : LowerAlpha[i] = c] ELSE c

Lower_identity(cs) == cs

\* str.lower(), on characters
Lower(cs) == [i \in 1..Len(cs) |-> LowerChar(cs[i])]

\* sub in cs, on characters
InChars(sub, cs) ==
  \E i \in 0..(Len(cs) - Len(sub)) : SubSeq(cs, i + 1, i + Len(sub)) = sub

\* sub in s
In(sub, s) == InChars(Chars(sub), Chars(s))

TitleChars_keep_underscore(cs) ==
  LET letter(c) == IsUpper(c) \/ IsLower(c)
  IN [i \in 1..Len(cs) |->
        IF i = 1 \/ ~letter(cs[i - 1]) THEN UpperChar(cs[i]) ELSE LowerChar(cs[i])]

\* s.replace('_', ' ').title(), on characters: a letter is upper-cased when
\* the character before it is not a letter, lower-cased otherwise
TitleChars(cs) ==
  LET r == [i \in 1..Len(cs) |-> IF cs[i] = "_" THEN " " ELSE cs[i]]
      letter(c) == IsUpper(c) \/ IsLower(c)
  IN [i \in 1..Len(r) |->
        IF i = 1 \/ ~letter(r[i - 1]) THEN UpperChar(r[i]) ELSE LowerChar(r[i])]

(* --------------------------- DataFrame --------------------------------- *)
Null == 0 - 1

\* len(df)
len(df) == Len(df.rows)

ColumnNames(df) == [i \in 1..Len(df.columns) |-> df.columns[i].name]

HasColumn(df, col) == \E i \in 1..Len(df.columns) : df.columns[i].name = col

ColIndex(df, col) == CHOOSE i \in 1..Len(df.columns) : df.columns[i].name = col

\* df[col], as the sequence of its cells
Column(df, col) == [r \in 1..Len(df.rows) |-> df.rows[r][ColIndex(df, col)]]

select_dtypes_reversed(df, include) ==
  LET sel == SelectSeq(df.columns, LAMBDA c : c.dtype \in include)
  IN [i \in 1..Len(sel) |-> sel[Len(sel) + 1 - i].name]

\* df.select_dtypes(include=...).columns.tolist()
select_dtypes(df, include) ==
  LET sel == SelectSeq(df.columns, LAMBDA c : c.dtype \in include)
  IN [i \in 1..Len(sel) |-> sel[i].name]

\* df[col].notna().sum()
notna_sum(df, col) ==
  Cardinality({r \in 1..Len(df.rows) : Column(df, col)[r] # Null})

\* count > nrows * 0.3.  The product is a double: 0.3 is stored as
\* 5404319552844595 / 2^54, and for every row count below 2^53 the rounded
\* product compares with an integer count exactly as 3 * nrows / 10 does
\* (the product of a multiple of 10 rounds to the integer 3 * nrows / 10).
ExceedsThreshold_inclusive(count, nrows) == 10 * count >= 3 * nrows
ExceedsThreshold(count, nrows) == 10 * count > 3 * nrows

(* ----------------------- auto_detect_columns --------------------------- *)
NumericDtypes_overlap == {"number", "object"}
NumericDtypes == {"number"}
CategoricalDtypes == {"object", "category"}

auto_detect_columns(df) ==
  LET numeric_cols == select_dtypes(df, NumericDtypes)
      categorical_cols == select_dtypes(df, CategoricalDtypes)
      date_cols == SelectSeq(ColumnNames(df),
                     LAMBDA col : \/ InChars(Chars("date"), Lower(Chars(col)))
                                  \/ InChars(Chars("time"), Lower(Chars(col))))
      valid_numeric == SelectSeq(numeric_cols,
                     LAMBDA col : ExceedsThreshold(notna_sum(df, col), len(df)))
      valid_categorical == SelectSeq(categorical_cols,
                     LAMBDA col : ExceedsThreshold(notna_sum(df, col), len(df)))
  IN [numeric |-> valid_numeric,
      categorical |-> valid_categorical,
      date |-> date_cols,
      best_numeric |-> IF valid_numeric # <<>> THEN Str(valid_numeric[1]) ELSE None,
      best_categorical |-> IF valid_categorical # <<>> THEN Str(valid_categorical[1]) ELSE None]

(* ------------------------- get_chart_config ---------------------------- *)
ResolveKey_category_always(key, value, detected) ==
  IF In("category", key) THEN detected.best_categorical
  ELSE IF value = Str("auto") \/ value = None
  THEN IF In("value", key) \/ In("y_col", key) THEN detected.best_numeric
       ELSE IF In("x_col", key)
            THEN Or(detected.best_categorical,
                    IF detected.date # <<>> THEN Str(detected.date[1]) ELSE None)
       ELSE IF key = "title" THEN None
       ELSE value
  ELSE value

ResolveKey_value_first(key, value, detected) ==
  IF value = Str("auto") \/ value = None
  THEN IF In("value", key) \/ In("y_col", key) THEN detected.best_numeric
       ELSE IF In("category", key) THEN detected.best_categorical
       ELSE IF In("x_col", key)
            THEN Or(detected.best_categorical,
                    IF detected.date # <<>> THEN Str(detected.date[1]) ELSE None)
       ELSE IF key = "title" THEN None
       ELSE value
  ELSE value

ResolveKey_no_date_fallback(key, value, detected) ==
  IF value = Str("auto") \/ value = None
  THEN IF In("category", key) THEN detected.best_categorical
       ELSE IF In("value", key) \/ In("y_col", key) THEN detected.best_numeric
       ELSE IF In("x_col", key) THEN detected.best_categorical
       ELSE IF key = "title" THEN None
       ELSE value
  ELSE value

\* one iteration of the loop over chart_conf.items()
ResolveKey(key, value, detected) ==
  IF value = Str("auto") \/ value = None
  THEN IF In("category", key) THEN detected.best_categorical
       ELSE IF In("value", key) \/ In("y_col", key) THEN detected.best_numeric
       ELSE IF In("x_col", key)
            THEN Or(detected.best_categorical,
                    IF detected.date # <<>> THEN Str(detected.date[1]) ELSE None)
       ELSE IF key = "y_columns" THEN ListV(Head_n(detected.numeric, 3))
       ELSE IF key = "title" THEN None
       ELSE value
  ELSE value

get_chart_config(cfg, chart_type, detected) ==
  LET chart_conf == Get(Get(cfg, "charts", EmptyDict), chart_type, EmptyDict)
  IN [key \in DOMAIN chart_conf |-> ResolveKey(key, chart_conf[key], detected)]

(* ------------------- grouping and aggregation -------------------------- *)
\* an aggregate value is the rational num / den; NaN has den = 0
Val(num, den) == [num |-> num, den |-> den]
NaN == Val(0, 0)

\* a > b on aggregate values
Greater(a, b) == a.num * b.den > b.num * a.den

\* a + b on aggregate values
Plus(a, b) == IF a.den = b.den THEN Val(a.num + b.num, a.den)
              ELSE Val(a.num * b.den + b.num * a.den, a.den * b.den)

\* a row label of an aggregated table: a group key, or the text "Other"
Label(k) == [other |-> FALSE, key |-> k]
OtherLabel == [other |-> TRUE, key |-> 0]

RECURSIVE SortedSeq(_)
SortedSeq(S) ==
  IF S = {} THEN <<>>
  ELSE LET m == CHOOSE x \in S : \A y \in S : x <= y
       IN <<m>> \o SortedSeq(S \ {m})

\* the group keys of df.groupby(col): distinct non-null values, sorted
GroupKeys(df, col) ==
  SortedSeq({Column(df, col)[r] : r \in 1..len(df)} \ {Null})

\* df[col].nunique()
nunique(df, col) == Len(GroupKeys(df, col))

\* the non-null cells of column col in the rows of group k of column by
GroupCells(df, by, k, col) ==
  LET rows == SelectSeq([r \in 1..len(df) |-> r],
                        LAMBDA r : Column(df, by)[r] = k)
      cells == [i \in 1..Len(rows) |-> Column(df, col)[rows[i]]]
  IN SelectSeq(cells, LAMBDA c : c # Null)

\* number of rows of group k
GroupSize(df, by, k) ==
  Cardinality({r \in 1..len(df) : Column(df, by)[r] = k})

RECURSIVE SumSeq(_)
SumSeq(s) == IF s = <<>> THEN 0 ELSE Head(s) + SumSeq(Tail(s))

RECURSIVE MaxSeq(_)
MaxSeq(s) == IF Len(s) = 1 THEN s[1]
             ELSE LET m == MaxSeq(Tail(s)) IN IF s[1] > m THEN s[1] ELSE m

RECURSIVE MinSeq(_)
MinSeq(s) == IF Len(s) = 1 THEN s[1]
             ELSE LET m == MinSeq(Tail(s)) IN IF s[1] < m THEN s[1] ELSE m

\* the aggregation names of pandas that the model covers
AggNames == {"sum", "mean", "max", "min"}

\* one aggregate of SeriesGroupBy.agg(agg): NaN skipped; sum of nothing is 0,
\* mean / max / min of nothing is NaN
Aggregate(cells, agg) ==
  CASE agg = "sum" -> Val(SumSeq(cells), 1)
    [] agg = "mean" -> IF cells = <<>> THEN NaN ELSE Val(SumSeq(cells), Len(cells))
    [] agg = "max" -> IF cells = <<>> THEN NaN ELSE Val(MaxSeq(cells), 1)
    [] agg = "min" -> IF cells = <<>> THEN NaN ELSE Val(MinSeq(cells), 1)

\* df.groupby(cat_col).size().reset_index(name=val_col)
groupby_size(df, cat_col) ==
  LET keys == GroupKeys(df, cat_col)
  IN [i \in 1..Len(keys) |->
        [label |-> Label(keys[i]), val |-> Val(GroupSize(df, cat_col, keys[i]), 1)]]

\* df.groupby(cat_col)[val_col].agg(agg).reset_index()
groupby_agg(df, cat_col, val_col, agg) ==
  LET keys == GroupKeys(df, cat_col)
  IN [i \in 1..Len(keys) |->
        [label |-> Label(keys[i]),
         val |-> Aggregate(GroupCells(df, cat_col, keys[i], val_col), agg)]]

\* table.dropna()
dropna(table) == SelectSeq(table, LAMBDA row : row.val # NaN)

\* insertion of a row into a table sorted by value, descending, after the
\* rows that are not smaller
RECURSIVE InsertDesc(_, _)
InsertDesc(row, sorted) ==
  IF sorted = <<>> THEN <<row>>
  ELSE IF Greater(row.val, Head(sorted).val) THEN <<row>> \o sorted
  ELSE <<Head(sorted)>> \o InsertDesc(row, Tail(sorted))

sort_values_desc_unsorted(table) == table

\* table.sort_values(val_col, ascending=False); rows of equal value keep
\* their order
RECURSIVE sort_values_desc(_)
sort_values_desc(table) ==
  IF table = <<>> THEN <<>>
  ELSE InsertDesc(table[Len(table)], sort_values_desc(SubSeq(table, 1, Len(table) - 1)))

head_unlimited(table, k) == table

\* table.head(k)
head(table, k) == Head_n(table, k)

\* the groupby / agg / reset_index lines of the bar and pie builders raise
\* (KeyError, ValueError, AttributeError, TypeError)
AggregationRaises(df, cat_col, val_col, agg) ==
  \/ cat_col.t # "str"
  \/ ~HasColumn(df, cat_col.s)
  \/ val_col.t # "str"
  \/ val_col = cat_col
  \/ /\ agg # Str("count")
     /\ \/ ~HasColumn(df, val_col.s)
        \/ agg.t # "str"
        \/ agg.s \notin AggNames

AggregatedTable_count_nonnull(df, cat_col, val_col, agg) ==
  IF agg = Str("count")
  THEN IF HasColumn(df, val_col.s)
       THEN LET keys == GroupKeys(df, cat_col.s)
            IN [i \in 1..Len(keys) |->
                  [label |-> Label(keys[i]),
                   val |-> Val(Len(GroupCells(df, cat_col.s, keys[i], val_col.s)), 1)]]
       ELSE groupby_size(df, cat_col.s)
  ELSE groupby_agg(df, cat_col.s, val_col.s, agg.s)

\* the aggregated table of the bar and pie builders before sorting
AggregatedTable(df, cat_col, val_col, agg) ==
  IF agg = Str("count") THEN groupby_size(df, cat_col.s)
  ELSE groupby_agg(df, cat_col.s, val_col.s, agg.s)

\* top_n > 0 raises TypeError unless top_n is a number
TopNRaises(top_n) == top_n.t \notin {"int", "bool"}

\* the default chart title
DefaultTitle(val_col, cat_col) ==
  TitleChars(Chars(val_col)) \o Chars(" by ") \o TitleChars(Chars(cat_col))

(* ------------------------------ state ---------------------------------- *)
VARIABLES
  config_file,   \* the content of config.yaml
  source,        \* the data source: readable or not, and its table
  pc,            \* position of generate_report
  config,        \* generate_report: config
  df,            \* generate_report: df
  summary,       \* generate_report: summary
  detected,      \* generate_report: detected
  bar_conf,      \* generate_report: bar_conf
  pie_conf,      \* generate_report: pie_conf
  line_conf,     \* generate_report: line_conf
  chart_paths,   \* generate_report: chart_paths
  chart_info,    \* generate_report: chart_info
  rendered,      \* the calls made to the chart renderers of visualizer.py
  slides,        \* the slides added to the presentation
  outputs,       \* generate_report: outputs
  pdf,           \* the chart paths given to create_pdf_report
  args,          \* generate_report: the arguments output_formats, send_email
  run,           \* number of the report run (the time stamp of its files)
  disk,          \* the files under output/, each with the run that wrote it
  mail,          \* the calls of send_report_email and what they did
  sched,         \* position of run_scheduled.main ("none": not used)
  jobs,          \* the jobs registered with the schedule library
  results        \* what run_report_job returned, one entry per job run

vars == <<config_file, source, pc, config, df, summary, detected, bar_conf,
          pie_conf, line_conf, chart_paths, chart_info, rendered, slides,
          outputs, pdf, args, run, disk, mail, sched, jobs, results>>

EmptyFrame == [columns |-> <<>>, rows |-> <<>>]

NoProfile == [numeric |-> <<>>, categorical |-> <<>>, date |-> <<>>,
              best_numeric |-> None, best_categorical |-> None]

\* CHARTS_DIR / filename
ChartPath(filename) == <<"output/charts", filename>>

\* plt.savefig(filepath) and the save of a report: the file is (over)written
Write(files, path, r) ==
  {f \in files : f.path # path} \cup {[path |-> path, run |-> r]}

Exists(files, path) == \E f \in files : f.path = path

load_data_empty_on_failure(src) ==
  [raised |-> FALSE, df |-> IF src.ok THEN src.table ELSE EmptyFrame]

\* load_data: the table of the source, or the error raised by the loader
load_data(src) == [raised |-> ~src.ok, df |-> IF src.ok THEN src.table ELSE EmptyFrame]

ChartEnabled_ignored(cfg, chart_type) == BoolV(TRUE)

\* charts_config.get(chart_type, {}).get('enabled', True)
ChartEnabled(cfg, chart_type) ==
  Get(Get(Get(cfg, "charts", EmptyDict), chart_type, EmptyDict), "enabled", BoolV(TRUE))

ChartPhaseFrame_writes_back ==
  /\ UNCHANGED <<df, summary>>
  /\ config' = config
  /\ detected' = [detected EXCEPT !.best_categorical = None]

\* lines 190-271 assign neither config, df, summary nor detected, and
\* get_chart_config fills a dictionary of its own
ChartPhaseFrame == UNCHANGED <<config, df, summary, detected>>

(* ------------------------- get_summary_stats --------------------------- *)
get_summary_stats(d) ==
  LET numeric_cols == select_dtypes(d, {"number"})
  IN [total_rows |-> len(d),
      columns |-> ColumnNames(d),
      numeric_summary |->
        [i \in 1..Len(numeric_cols) |->
           [col |-> numeric_cols[i],
            total |-> SumSeq(SelectSeq(Column(d, numeric_cols[i]),
                                       LAMBDA c : c # Null))]]]

(* ---------------- generate_report, lines 149-186 ----------------------- *)
\* load_config, the defaults taken from it, load_data, get_summary_stats,
\* auto_detect_columns and the empty artifact lists
LoadAndAnalyze ==
  /\ pc = "start"
  /\ sched \in {"none", "loop"}
  /\ run <= MaxRuns
  /\ config' = config_file
  /\ IF \/ "data" \notin DOMAIN config_file
        \/ (args.output_formats = None /\ "output" \notin DOMAIN config_file)
        \/ load_data(source).raised
     THEN /\ pc' = "raised"
          /\ UNCHANGED <<df, summary, detected, chart_paths, chart_info>>
     ELSE /\ df' = load_data(source).df
          /\ summary' = get_summary_stats(load_data(source).df)
          /\ detected' = auto_detect_columns(load_data(source).df)
          /\ chart_paths' = <<>>
          /\ chart_info' = <<>>
          /\ pc' = "bar"
  /\ UNCHANGED <<config_file, source, bar_conf, pie_conf, line_conf, rendered,
                 slides, outputs, pdf, args, run, disk, mail, sched, jobs, results>>

(* ---------------- generate_report, lines 190-215 ----------------------- *)
BarChart ==
  /\ pc = "bar"
  /\ LET conf == get_chart_config(config, "bar_chart", detected)
         charts_config == Get(config, "charts", EmptyDict)
         enabled == ChartEnabled(config, "bar_chart")
         cat_col == Get(conf, "category_column", None)
         val_col == Get(conf, "value_column", None)
         agg == Get(conf, "aggregation", Str("sum"))
         top_n == Get(conf, "top_n", IntV(15))
     IN /\ bar_conf' = conf
        /\ IF Truthy(enabled) /\ Truthy(cat_col) /\ Truthy(val_col)
           THEN IF AggregationRaises(df, cat_col, val_col, agg) \/ TopNRaises(top_n)
                THEN /\ pc' = "raised"
                     /\ UNCHANGED <<chart_paths, chart_info, rendered, disk>>
                ELSE LET sorted == sort_values_desc(dropna(
                                     AggregatedTable(df, cat_col, val_col, agg)))
                         agg_data == IF top_n.n > 0 THEN head(sorted, top_n.n) ELSE sorted
                         title == IF Truthy(Get(conf, "title", None))
                                  THEN Chars(conf["title"].s)
                                  ELSE DefaultTitle(val_col.s, cat_col.s)
                         bar_path == ChartPath("bar_chart.png")
                     IN /\ rendered' = Append(rendered,
                             [fn |-> "create_bar_chart", data |-> agg_data,
                              x |-> cat_col.s, y |-> <<val_col.s>>,
                              title |-> title, filename |-> "bar_chart.png"])
                        /\ chart_paths' = Append(chart_paths, bar_path)
                        /\ disk' = Write(disk, bar_path, run)
                        /\ chart_info' = Append(chart_info,
                             [title |-> title, path |-> bar_path,
                              desc |-> [text |-> "Top", n |-> Len(agg_data),
                                        a |-> cat_col.s, b |-> val_col.s]])
                        /\ pc' = "pie"
           ELSE /\ pc' = "pie"
                /\ UNCHANGED <<chart_paths, chart_info, rendered, disk>>
  /\ ChartPhaseFrame
  /\ UNCHANGED <<config_file, source, pie_conf, line_conf, slides, outputs, pdf,
                 args, run, mail, sched, jobs, results>>

(* ---------------- generate_report, lines 217-253 ----------------------- *)
PieCategory_exclusive(d, det, cat_col) ==
  IF cat_col = det.best_categorical
  THEN LET better == SelectSeq(det.categorical,
                       LAMBDA col : 3 < nunique(d, col) /\ nunique(d, col) < 8)
       IN IF better # <<>> THEN Str(better[1]) ELSE cat_col
  ELSE cat_col

\* lines 225-232: the first categorical column with 3 to 8 distinct values
PieCategory(d, det, cat_col) ==
  IF cat_col = det.best_categorical
  THEN LET better == SelectSeq(det.categorical,
                       LAMBDA col : 3 <= nunique(d, col) /\ nunique(d, col) <= 8)
       IN IF better # <<>> THEN Str(better[1]) ELSE cat_col
  ELSE cat_col

OtherBucket_from_top_n(pie_data, top_n) ==
  IF top_n > 0 /\ Len(pie_data) > top_n
  THEN LET rest == SubSeq(pie_data, top_n + 1, Len(pie_data))
           RECURSIVE total(_)
           total(s) == IF s = <<>> THEN Val(0, 1)
                       ELSE Plus(s[1].val, total(Tail(s)))
       IN Append(head(pie_data, top_n - 1), [label |-> OtherLabel, val |-> total(rest)])
  ELSE pie_data

\* lines 241-246: the rows after the first top_n - 1 become one "Other" row
OtherBucket(pie_data, top_n) ==
  IF top_n > 0 /\ Len(pie_data) > top_n
  THEN LET rest == SubSeq(pie_data, top_n, Len(pie_data))
           RECURSIVE total(_)
           total(s) == IF Len(s) = 1 THEN s[1].val
                       ELSE Plus(s[1].val, total(Tail(s)))
       IN Append(head(pie_data, top_n - 1), [label |-> OtherLabel, val |-> total(rest)])
  ELSE pie_data

PieChart ==
  /\ pc = "pie"
  /\ LET conf == get_chart_config(config, "pie_chart", detected)
         charts_config == Get(config, "charts", EmptyDict)
         enabled == ChartEnabled(config, "pie_chart")
         conf_cat == Get(conf, "category_column", None)
         val_col == Get(conf, "value_column", None)
         agg == Get(conf, "aggregation", Str("sum"))
         top_n == Get(conf, "top_n", IntV(10))
     IN /\ pie_conf' = conf
        /\ IF Truthy(enabled) /\ Truthy(conf_cat) /\ Truthy(val_col)
           THEN LET cat_col == PieCategory(df, detected, conf_cat)
                IN IF AggregationRaises(df, cat_col, val_col, agg) \/ TopNRaises(top_n)
                   THEN /\ pc' = "raised"
                        /\ UNCHANGED <<chart_paths, chart_info, rendered, disk>>
                   ELSE LET sorted == sort_values_desc(dropna(
                                        AggregatedTable(df, cat_col, val_col, agg)))
                            pie_data == OtherBucket(sorted, top_n.n)
                            title == IF Truthy(Get(conf, "title", None))
                                     THEN Chars(conf["title"].s)
                                     ELSE DefaultTitle(val_col.s, cat_col.s)
                            pie_path == ChartPath("pie_chart.png")
                        IN /\ rendered' = Append(rendered,
                                [fn |-> "create_pie_chart", data |-> pie_data,
                                 x |-> cat_col.s, y |-> <<val_col.s>>,
                                 title |-> title, filename |-> "pie_chart.png"])
                           /\ chart_paths' = Append(chart_paths, pie_path)
                           /\ disk' = Write(disk, pie_path, run)
                           /\ chart_info' = Append(chart_info,
                                [title |-> title, path |-> pie_path,
                                 desc |-> [text |-> "Distribution across", n |-> 0,
                                           a |-> cat_col.s, b |-> ""]])
                           /\ pc' = "line"
           ELSE /\ pc' = "line"
                /\ UNCHANGED <<chart_paths, chart_info, rendered, disk>>
  /\ ChartPhaseFrame
  /\ UNCHANGED <<config_file, source, bar_conf, line_conf, slides, outputs, pdf,
                 args, run, mail, sched, jobs, results>>

(* ---------------- generate_report, lines 255-271 ----------------------- *)
\* line_data.head(20)
LineCap == 20

\* y_cols if isinstance(y_cols, list) else [y_cols]
AsList(y_cols) == IF y_cols.t = "list" THEN y_cols.l ELSE <<y_cols.s>>

\* df.groupby(x_col)[y_cols].sum().reset_index() raises (KeyError, or
\* ValueError when x_col is also a selected column)
LineRaises(d, x_col, y_cols) ==
  \/ x_col.t # "str"
  \/ ~HasColumn(d, x_col.s)
  \/ y_cols.t \notin {"str", "list"}
  \/ \E i \in 1..Len(AsList(y_cols)) :
        \/ ~HasColumn(d, AsList(y_cols)[i])
        \/ AsList(y_cols)[i] = x_col.s

\* df.groupby(x_col)[y_cols].sum().reset_index()
groupby_sum(d, x_col, y_list) ==
  LET keys == GroupKeys(d, x_col)
  IN [i \in 1..Len(keys) |->
        [label |-> Label(keys[i]),
         vals |-> [j \in 1..Len(y_list) |->
                     SumSeq(GroupCells(d, x_col, keys[i], y_list[j]))]]]

LineAttempted_one_numeric(enabled, det) ==
  Truthy(enabled) /\ Len(det.numeric) >= 1

\* line 257: the line chart is enabled and the profile has two numeric columns
LineAttempted(enabled, det) ==
  Truthy(enabled) /\ Len(det.numeric) >= 2

LineChart ==
  /\ pc = "line"
  /\ LET conf == get_chart_config(config, "line_chart", detected)
         charts_config == Get(config, "charts", EmptyDict)
         enabled == ChartEnabled(config, "line_chart")
         x_col == Or(Get(conf, "x_column", None), detected.best_categorical)
         y_cols == Or(Get(conf, "y_columns", None), ListV(Head_n(detected.numeric, 3)))
     IN /\ line_conf' = conf
        /\ IF LineAttempted(enabled, detected) /\ Truthy(x_col) /\ Truthy(y_cols)
           THEN IF LineRaises(df, x_col, y_cols)
                THEN /\ pc' = "raised"
                     /\ UNCHANGED <<chart_paths, chart_info, rendered, disk>>
                ELSE LET line_data == head(groupby_sum(df, x_col.s, AsList(y_cols)), LineCap)
                         title == IF Truthy(Get(conf, "title", None))
                                  THEN Chars(conf["title"].s)
                                  ELSE Chars("Numeric Trends Comparison")
                         line_path == ChartPath("line_chart.png")
                     IN IF Len(line_data) > 1
                        THEN /\ rendered' = Append(rendered,
                                  [fn |-> "create_line_chart", data |-> line_data,
                                   x |-> x_col.s, y |-> AsList(y_cols),
                                   title |-> title, filename |-> "line_chart.png"])
                             /\ chart_paths' = Append(chart_paths, line_path)
                             /\ disk' = Write(disk, line_path, run)
                             /\ chart_info' = Append(chart_info,
                                  [title |-> title, path |-> line_path,
                                   desc |-> [text |-> "Trends across", n |-> 0,
                                             a |-> x_col.s, b |-> ""]])
                             /\ pc' = "assemble"
                        ELSE /\ pc' = "assemble"
                             /\ UNCHANGED <<chart_paths, chart_info, rendered, disk>>
           ELSE /\ pc' = "assemble"
                /\ UNCHANGED <<chart_paths, chart_info, rendered, disk>>
  /\ ChartPhaseFrame
  /\ UNCHANGED <<config_file, source, bar_conf, pie_conf, slides, outputs, pdf,
                 args, run, mail, sched, jobs, results>>

(* ---------------- generate_report, lines 273-334 ----------------------- *)
ChartSlides_from_disk(info) ==
  LET found == SelectSeq(<<ChartPath("bar_chart.png"), ChartPath("pie_chart.png"),
                           ChartPath("line_chart.png")>>,
                         LAMBDA path : Exists(disk, path))
      titled(path) == IF \E i \in 1..Len(info) : info[i].path = path
                      THEN info[CHOOSE i \in 1..Len(info) : info[i].path = path].title
                      ELSE <<>>
  IN [i \in 1..Len(found) |-> [title |-> titled(found[i]), path |-> found[i]]]

ChartSlides_reversed(info) ==
  [i \in 1..Len(info) |-> [title |-> info[Len(info) + 1 - i].title,
                           path |-> info[Len(info) + 1 - i].path]]

\* lines 303-304: one chart slide per entry of chart_info, in its order
ChartSlides(info) ==
  [i \in 1..Len(info) |-> [title |-> info[i].title, path |-> info[i].path]]

\* lines 155-156: the output_formats argument, else the configured formats
OutputFormats(a, cfg) ==
  IF a.output_formats = None THEN Get(cfg["output"], "formats", <<"pptx">>)
  ELSE a.output_formats.l

\* save_presentation / create_pdf_report: report_<timestamp>.<format>; the
\* time stamp of a run is its number
ReportPath(r, format) ==
  <<IF format = "pptx" THEN "output/presentations" ELSE "output/pdf", r, format>>

\* list(outputs.values()): the pptx path before the pdf path
Values(out) ==
  (IF "pptx" \in DOMAIN out THEN <<out["pptx"]>> ELSE <<>>) \o
  (IF "pdf" \in DOMAIN out THEN <<out["pdf"]>> ELSE <<>>)

\* the presentation is built and the requested outputs are saved
AssembleReport ==
  /\ pc = "assemble"
  /\ IF "report" \notin DOMAIN config
     THEN /\ pc' = "raised"
          /\ UNCHANGED <<slides, outputs, pdf, disk>>
     ELSE LET output_formats == OutputFormats(args, config)
              has(f) == \E i \in 1..Len(output_formats) : output_formats[i] = f
              saved == {g \in {"pptx", "pdf"} : has(g)}
          IN /\ slides' = <<[title |-> Chars("Data Summary"), path |-> <<>>]>> \o
                          ChartSlides(chart_info)
             /\ outputs' = [f \in saved |-> ReportPath(run, f)]
             /\ pdf' = IF has("pdf") THEN chart_paths ELSE <<>>
             /\ disk' = {f \in disk : \A g \in saved : f.path # ReportPath(run, g)}
                        \cup {[path |-> ReportPath(run, g), run |-> run] : g \in saved}
             /\ pc' = "email"
  /\ UNCHANGED <<config_file, source, config, df, summary, detected, bar_conf,
                 pie_conf, line_conf, chart_paths, chart_info, rendered, args,
                 run, mail, sched, jobs, results>>

(* ------------------------- send_report_email --------------------------- *)
\* what the SMTP exchange and the reading of the attachments can end in
SmtpOutcomes == {"sent", "auth_error", "smtp_error", "other_error"}

NoExplicit == [smtp_server |-> None, sender_email |-> None, sender_password |-> None]

send_report_email_unchecked_path(to_emails, attachments, explicit, cfg, files, smtp) ==
  LET use == cfg # None /\ cfg # EmptyDict
      pick(k) == IF use THEN Or(explicit[k], Get(cfg, k, None)) ELSE explicit[k]
      complete == Truthy(pick("smtp_server")) /\ Truthy(pick("sender_email"))
                  /\ Truthy(pick("sender_password"))
      missing == \E i \in 1..Len(attachments) : ~Exists(files, attachments[i])
      ok == complete /\ to_emails.t = "list" /\ ~missing
  IN [result |-> ok /\ smtp = "sent",
      raised |-> FALSE,
      connected |-> ok /\ smtp \in {"sent", "auth_error", "smtp_error"},
      attached |-> IF ok THEN attachments ELSE <<>>]

\* lines 44-103: the returned value, whether an exception leaves the
\* function, whether an SMTP connection was opened and the files attached
send_report_email(to_emails, attachments, explicit, cfg, files, smtp) ==
  LET use == cfg # None /\ cfg # EmptyDict
      pick(k) == IF use THEN Or(explicit[k], Get(cfg, k, None)) ELSE explicit[k]
      complete == Truthy(pick("smtp_server")) /\ Truthy(pick("sender_email"))
                  /\ Truthy(pick("sender_password"))
      \* ', '.join(to_emails) raises inside the try block unless it is a list
      ok == complete /\ to_emails.t = "list"
  IN [result |-> ok /\ smtp = "sent",
      raised |-> FALSE,
      connected |-> ok /\ smtp \in {"sent", "auth_error", "smtp_error"},
      attached |-> IF ok THEN SelectSeq(attachments, LAMBDA a : Exists(files, a))
                   ELSE <<>>]

\* one entry of the log of calls
MailEntry(to_emails, attachments, explicit, cfg, smtp, r) ==
  [run |-> run, to |-> to_emails, attachments |-> attachments,
   explicit |-> explicit, config |-> cfg, smtp |-> smtp,
   result |-> r.result, raised |-> r.raised, connected |-> r.connected,
   attached |-> r.attached]

(* ---------------- generate_report, lines 336-353 ----------------------- *)
EmailRequested_ignores_argument(send_email, cfg) ==
  "email" \in DOMAIN cfg /\ Truthy(Get(cfg["email"], "enabled", None))

\* line 339: send_email and config['email'].get('enabled')
EmailRequested(send_email, cfg) ==
  send_email /\ Truthy(Get(cfg["email"], "enabled", None))

EmailStep ==
  /\ pc = "email"
  /\ IF args.send_email /\ "email" \notin DOMAIN config
     THEN /\ pc' = "raised"
          /\ UNCHANGED mail
     ELSE IF EmailRequested(args.send_email, config)
          THEN \E smtp \in SmtpOutcomes :
                 LET email_config == config["email"]
                     to_emails == Get(email_config, "recipients", ListV(<<>>))
                     attachments == Values(outputs)
                     r == send_report_email(to_emails, attachments, NoExplicit,
                                            email_config, disk, smtp)
                 IN /\ mail' = Append(mail, MailEntry(to_emails, attachments, NoExplicit,
                                                      email_config, smtp, r))
                    /\ pc' = IF r.raised THEN "raised" ELSE "done"
          ELSE /\ pc' = "done"
               /\ UNCHANGED mail
  /\ UNCHANGED <<config_file, source, config, df, summary, detected, bar_conf,
                 pie_conf, line_conf, chart_paths, chart_info, rendered, slides,
                 outputs, pdf, args, run, disk, sched, jobs, results>>

(* ------------------ send_report_email called directly ------------------ *)
\* the email settings tried
MailConfigs ==
  {None, EmptyDict,
   [smtp_server |-> Str("smtp.example.com"), sender_email |-> Str("a@example.com"),
    sender_password |-> Str("secret")],
   [smtp_server |-> Str("smtp.example.com"), sender_email |-> Str("a@example.com")],
   [smtp_server |-> Str("smtp.example.com"), sender_password |-> Str("secret")],
   [sender_email |-> Str("a@example.com"), sender_password |-> Str("secret")],
   [smtp_server |-> Str(""), sender_email |-> Str("a@example.com"),
    sender_password |-> Str("secret")]}

Explicits ==
  {NoExplicit,
   [smtp_server |-> Str("smtp.example.com"), sender_email |-> None,
    sender_password |-> None],
   [smtp_server |-> Str("smtp.example.com"), sender_email |-> Str("a@example.com"),
    sender_password |-> Str("secret")]}

\* a report of an earlier run that is on disk, and one that is not
OldReport == ReportPath(0, "pptx")
LostReport == ReportPath(0, "pdf")

SendReportEmailCall ==
  /\ pc = "mailer"
  /\ \E cfg \in MailConfigs, explicit \in Explicits, smtp \in SmtpOutcomes,
        to_emails \in {ListV(<<"b@example.com">>), ListV(<<>>), None},
        attachments \in {<<>>, <<OldReport>>, <<LostReport>>, <<LostReport, OldReport>>} :
       LET r == send_report_email(to_emails, attachments, explicit, cfg, disk, smtp)
       IN /\ mail' = Append(mail, MailEntry(to_emails, attachments, explicit, cfg, smtp, r))
          /\ pc' = IF r.raised THEN "raised" ELSE "mailed"
  /\ UNCHANGED <<config_file, source, config, df, summary, detected, bar_conf,
                 pie_conf, line_conf, chart_paths, chart_info, rendered, slides,
                 outputs, pdf, args, run, disk, sched, jobs, results>>

(* ----------------------------- scheduler ------------------------------- *)
\* what the data source holds when a scheduled run starts: a table that
\* gives all three charts, one without categorical column, one without
\* numeric column, or nothing that can be loaded
ScheduledSources ==
  {[ok |-> TRUE,
    table |-> [columns |-> <<[name |-> "region", dtype |-> "object"],
                             [name |-> "sales", dtype |-> "number"],
                             [name |-> "cost", dtype |-> "number"]>>,
               rows |-> <<<<2, 1, 2>>, <<1, 2, 2>>, <<3, 2, 1>>>>]],
   [ok |-> TRUE,
    table |-> [columns |-> <<[name |-> "updated", dtype |-> "datetime"],
                             [name |-> "cost", dtype |-> "number"],
                             [name |-> "sales", dtype |-> "number"]>>,
               rows |-> <<<<1, 2, 0>>, <<2, 1, 1>>>>]],
   [ok |-> TRUE,
    table |-> [columns |-> <<[name |-> "region", dtype |-> "object"]>>,
               rows |-> <<<<1>>, <<2>>>>]],
   [ok |-> FALSE, table |-> EmptyFrame]}

\* the day names of the schedule library
Weekdays ==
  {"monday", "tuesday", "wednesday", "thursday", "friday", "saturday", "sunday"}

\* the times of day that the schedule library accepts for at()
ValidTime(time_str) == time_str \in {Str("09:00"), Str("18:30")}

Registered(kind, at, day, minutes) ==
  [end |-> "loop",
   jobs |-> <<[kind |-> kind, at |-> at, day |-> day, minutes |-> minutes,
               job_func |-> "run_report_job", report_function |-> "generate_report"]>>]

ScheduledJob_unknown_is_daily(schedule_config) ==
  IF ~Truthy(Get(schedule_config, "enabled", BoolV(FALSE)))
  THEN [end |-> "exited", jobs |-> <<>>]
  ELSE LET frequency == Get(schedule_config, "frequency", Str("daily"))
           time_str == Get(schedule_config, "time", Str("09:00"))
       IN IF frequency = Str("interval")
          THEN Registered("interval", "", "",
                          Get(schedule_config, "interval_minutes", IntV(60)).n)
          ELSE IF ValidTime(time_str) THEN Registered("daily", time_str.s, "", 0)
          ELSE [end |-> "raised", jobs |-> <<>>]

\* run_scheduled.main, lines 43-73, with schedule_daily / schedule_weekly /
\* schedule_interval: the job registered, exit(), or the error of the
\* schedule library for a day or time it does not know
ScheduledJob(schedule_config) ==
  IF ~Truthy(Get(schedule_config, "enabled", BoolV(FALSE)))
  THEN [end |-> "exited", jobs |-> <<>>]
  ELSE LET frequency == Get(schedule_config, "frequency", Str("daily"))
           time_str == Get(schedule_config, "time", Str("09:00"))
           day == Get(schedule_config, "day", Str("monday"))
           minutes == Get(schedule_config, "interval_minutes", IntV(60))
       IN IF frequency = Str("daily")
          THEN IF ValidTime(time_str) THEN Registered("daily", time_str.s, "", 0)
               ELSE [end |-> "raised", jobs |-> <<>>]
          ELSE IF frequency = Str("weekly")
          THEN IF /\ \E d \in Weekdays : Lower(Chars(day.s)) = Chars(d)
                  /\ ValidTime(time_str)
               THEN Registered("weekly", time_str.s,
                               CHOOSE d \in Weekdays : Lower(Chars(day.s)) = Chars(d), 0)
               ELSE [end |-> "raised", jobs |-> <<>>]
          ELSE IF frequency = Str("interval")
          THEN Registered("interval", "", "", minutes.n)
          ELSE [end |-> "exited", jobs |-> <<>>]

ScheduledMain ==
  /\ sched = "main"
  /\ LET j == ScheduledJob(Get(config_file, "schedule", EmptyDict))
     IN /\ jobs' = jobs \o j.jobs
        /\ sched' = j.end
  /\ UNCHANGED <<config_file, source, pc, config, df, summary, detected, bar_conf,
                 pie_conf, line_conf, chart_paths, chart_info, rendered, slides,
                 outputs, pdf, args, run, disk, mail, results>>

run_report_job_reraises(position, out) ==
  IF position = "raised" THEN [raised |-> TRUE, result |-> None]
  ELSE [raised |-> FALSE, result |-> out]

\* scheduler.py lines 57-63: the result of the report function, or None when
\* it raised
run_report_job(position, out) ==
  IF position = "raised" THEN [raised |-> FALSE, result |-> None]
  ELSE [raised |-> FALSE, result |-> out]

\* a call of generate_report starts with no locals
NewFrame ==
  /\ config' = EmptyDict
  /\ df' = EmptyFrame
  /\ summary' = EmptyDict
  /\ detected' = NoProfile
  /\ bar_conf' = EmptyDict
  /\ pie_conf' = EmptyDict
  /\ line_conf' = EmptyDict
  /\ chart_paths' = <<>>
  /\ chart_info' = <<>>
  /\ rendered' = <<>>
  /\ slides' = <<>>
  /\ outputs' = EmptyDict
  /\ pdf' = <<>>

\* the job returns to schedule.run_pending() in the loop of run_scheduler
\* (lines 152-154), the job stays registered, and the next due run starts on
\* whatever the data source holds by then
JobReturns ==
  /\ sched = "loop"
  /\ pc \in {"done", "raised"}
  /\ LET r == run_report_job(pc, outputs)
     IN IF r.raised
        THEN /\ sched' = "raised"
             /\ UNCHANGED <<source, pc, config, df, summary, detected, bar_conf,
                            pie_conf, line_conf, chart_paths, chart_info, rendered,
                            slides, outputs, pdf, run, results>>
        ELSE /\ results' = Append(results, r.result)
             /\ run' = run + 1
             /\ pc' = "start"
             /\ NewFrame
             /\ \E src \in ScheduledSources : source' = src
             /\ UNCHANGED sched
  /\ UNCHANGED <<config_file, args, disk, mail, jobs>>

Next ==
  \/ LoadAndAnalyze
  \/ BarChart
  \/ PieChart
  \/ LineChart
  \/ AssembleReport
  \/ EmailStep
  \/ SendReportEmailCall
  \/ ScheduledMain
  \/ JobReturns

(* --------------------------- configurations ---------------------------- *)
\* the 'charts' section of get_default_config
DefaultCharts ==
  [bar_chart |-> [enabled |-> BoolV(TRUE), category_column |-> Str("auto"),
                  value_column |-> Str("auto"), aggregation |-> Str("sum"),
                  top_n |-> IntV(15)],
   pie_chart |-> [enabled |-> BoolV(TRUE), category_column |-> Str("auto"),
                  value_column |-> Str("auto"), aggregation |-> Str("sum"),
                  top_n |-> IntV(10)],
   line_chart |-> [enabled |-> BoolV(TRUE), x_column |-> Str("auto"),
                   y_columns |-> Str("auto")]]

\* a configuration without a 'charts' section
BareConfig ==
  [data |-> [default_file |-> "sample_data/data.csv"],
   report |-> [title |-> "Data Analysis Report"],
   email |-> [enabled |-> BoolV(FALSE)],
   output |-> [formats |-> <<"pptx">>]]

ConfigWith(charts) == [s \in DOMAIN BareConfig \cup {"charts"} |->
                         IF s = "charts" THEN charts ELSE BareConfig[s]]

\* get_default_config
get_default_config == ConfigWith(DefaultCharts)

\* d with d[k] = v
SetKey(d, k, v) == [x \in DOMAIN d \cup {k} |-> IF x = k THEN v ELSE d[x]]

\* d without the key k
DropKey(d, k) == [x \in DOMAIN d \ {k} |-> d[x]]

ChartTypes == {"bar_chart", "pie_chart", "line_chart"}

(* ------------------ inputs: classification family ---------------------- *)
TypedColumns ==
  {[name |-> "region", dtype |-> "category"],
   [name |-> "sales", dtype |-> "number"],
   [name |-> "Order_Date", dtype |-> "object"],
   [name |-> "time_ms", dtype |-> "number"],
   [name |-> "updated", dtype |-> "datetime"]}

\* column lists of at most MaxCols columns with unique names
Schemas ==
  {s \in UNION {[1..k -> TypedColumns] : k \in 0..MaxCols} :
     \A i, j \in 1..Len(s) : i # j => s[i].name # s[j].name}

\* the table of n + pad rows whose column c has counts[c] non-null cells,
\* in its first rows
ClassifyTable(s, n, pad, counts) ==
  IF s = <<>> THEN EmptyFrame
  ELSE [columns |-> s,
        rows |-> [r \in 1..(n + pad) |->
                    [c \in 1..Len(s) |-> IF r <= counts[c] THEN 1 + (r % 2) ELSE Null]]]

\* the default configuration and a table of up to MaxRows rows, followed by
\* either no or MaxPad all-null rows
ClassifyInit ==
  /\ config_file = get_default_config
  /\ \E s \in Schemas : \E n \in 0..MaxRows : \E pad \in {0, MaxPad} :
       \E counts \in [1..Len(s) -> 0..n] :
         source = [ok |-> TRUE, table |-> ClassifyTable(s, n, pad, counts)]

(* -------------------- inputs: resolution family ------------------------ *)
Tbl(columns, rows) == [columns |-> columns, rows |-> rows]
Col(name, dtype) == [name |-> name, dtype |-> dtype]

\* tables whose profiles have / lack a best categorical column, a best
\* numeric column and a date-like column
ProfileTables ==
  {Tbl(<<Col("region", "object"), Col("sales", "number"), Col("cost", "number")>>,
       <<<<2, 1, 2>>, <<1, 2, 2>>, <<3, 2, 1>>, <<2, Null, 1>>>>),
   Tbl(<<Col("sales", "number"), Col("time_ms", "number")>>,
       <<<<1, 2>>, <<2, 1>>, <<2, 2>>>>),
   Tbl(<<Col("time_ms", "number"), Col("sales", "number")>>,
       <<<<1, 2>>, <<2, 1>>>>),
   Tbl(<<Col("updated", "datetime"), Col("cost", "number"), Col("sales", "number")>>,
       <<<<1, 2, 0>>, <<2, 1, 1>>>>),
   Tbl(<<Col("Order_Date", "object"), Col("region", "object")>>,
       <<<<1, 1>>, <<2, 1>>>>),
   Tbl(<<Col("updated", "datetime")>>, <<<<1>>>>),
   Tbl(<<Col("region", "object"), Col("sales", "number")>>, <<>>)}

\* the values tried for a key of a chart fragment
KeyValues(key) ==
  {Str("auto"), None} \cup
  CASE key \in {"category_column", "x_column"} ->
         {Str("region"), Str("status"), Str("sales"), Str("missing_col")}
    [] key = "value_column" -> {Str("sales"), Str("cost"), Str("missing_col")}
    [] key = "y_columns" ->
         {ListV(<<"sales", "cost">>), ListV(<<"cost">>), Str("cost"), ListV(<<>>)}
    [] key = "title" -> {Str("My Chart"), Str("")}
    [] key = "top_n" -> {IntV(0), IntV(1), IntV(3)}
    [] key = "aggregation" -> {Str("mean"), Str("count"), Str("max")}
    [] key = "enabled" -> {BoolV(TRUE), BoolV(FALSE)}
    [] OTHER -> {Str("region"), Str("sales"), IntV(3), BoolV(TRUE),
                 ListV(<<"sales", "cost">>)}

FragmentKeys ==
  {"category_column", "value_column", "x_column", "y_columns", "title",
   "top_n", "aggregation", "enabled", "y_col", "value_category", "color"}

\* the default charts with one key of one fragment set or removed, the
\* charts with one fragment missing, no fragments, and no charts section
ResolveConfigs ==
  UNION {UNION {{ConfigWith(SetKey(DefaultCharts, ct, SetKey(DefaultCharts[ct], key, v))) :
                   v \in KeyValues(key)} : key \in FragmentKeys} : ct \in ChartTypes}
  \cup {ConfigWith(SetKey(DefaultCharts, ct, DropKey(DefaultCharts[ct], key))) :
          ct \in ChartTypes, key \in FragmentKeys}
  \cup {ConfigWith(DropKey(DefaultCharts, ct)) : ct \in ChartTypes}
  \cup {ConfigWith(EmptyDict), BareConfig}

ResolveInit ==
  /\ config_file \in ResolveConfigs
  /\ \E tb \in ProfileTables : source = [ok |-> TRUE, table |-> tb]

(* -------------------- inputs: aggregation family ----------------------- *)
\* the bar and pie fragments with an aggregation and a top_n (15 / 10 when
\* the key is left out)
AggConfigs ==
  {ConfigWith(
     [bar_chart |-> SetKey(DropKey(DefaultCharts.bar_chart, "top_n"), "aggregation", Str(a)),
      pie_chart |-> SetKey(DropKey(DefaultCharts.pie_chart, "top_n"), "aggregation", Str(a)),
      line_chart |-> DefaultCharts.line_chart]) : a \in {"sum", "mean", "count"}}
  \cup
  {ConfigWith(
     [bar_chart |-> SetKey(SetKey(DefaultCharts.bar_chart, "top_n", IntV(k)), "aggregation", Str(a)),
      pie_chart |-> SetKey(SetKey(DefaultCharts.pie_chart, "top_n", IntV(k)), "aggregation", Str(a)),
      line_chart |-> DefaultCharts.line_chart]) :
     a \in {"sum", "mean", "count"}, k \in (0 - 1)..MaxTopN}

\* a >= b on rows, by region then sales
RowGE(a, b) == a[1] > b[1] \/ (a[1] = b[1] /\ a[2] >= b[2])

\* a table with more groups than the default top_n of the bar chart
ManyGroupsTable ==
  Tbl(<<Col("region", "object"), Col("sales", "number")>>,
      [r \in 1..ManyGroups |-> <<ManyGroups + 1 - r, 1 + (r % 3)>>])

\* tables over (region, sales) of up to MaxAggRows rows; region descends
\* along the rows, so that grouping has to reorder the keys
AggInit ==
  /\ config_file \in AggConfigs
  /\ \/ source = [ok |-> TRUE, table |-> ManyGroupsTable]
     \/ \E k \in 0..MaxAggRows :
          \E rows \in [1..k -> ((1..MaxCat) \cup {Null}) \X ((1..MaxVal) \cup {Null})] :
            /\ \A i \in 1..(k - 1) : RowGE(rows[i], rows[i + 1])
            /\ source = [ok |-> TRUE,
                         table |-> Tbl(<<Col("region", "object"), Col("sales", "number")>>, rows)]

(* ----------------------- inputs: chart family -------------------------- *)
\* the numbers of distinct values around the limits 3 and 8 of the pie chart
Cardinalities == {2, 3, 8, 9}

\* region has dR and status has dS distinct values; one sales cell is null
CardinalityTable(dR, dS) ==
  Tbl(<<Col("region", "object"), Col("status", "object"), Col("sales", "number")>>,
      [r \in 1..CardRows |->
         <<1 + (r % dR), 1 + (r % dS), IF r = 2 THEN Null ELSE 1 + (r % 2)>>])

\* more than LineCap groups, the largest key first
LineGroupsTable ==
  Tbl(<<Col("region", "object"), Col("sales", "number"), Col("cost", "number")>>,
      [r \in 1..LineGroups |-> <<LineGroups + 1 - r, 1 + (r % 3), r % 2>>])

ChartTables ==
  {CardinalityTable(dR, dS) : dR \in Cardinalities, dS \in Cardinalities}
  \cup
  {LineGroupsTable,
   \* column names with an underscore and with capitals
   Tbl(<<Col("Order_Date", "object"), Col("time_ms", "number"), Col("sales", "number")>>,
       <<<<2, 1, 2>>, <<1, 2, 2>>, <<2, 2, 1>>>>),
   \* cost is a number column that fails the 30% threshold
   Tbl(<<Col("region", "object"), Col("sales", "number"), Col("cost", "number")>>,
       <<<<2, 1, 2>>, <<1, 2, Null>>, <<3, 2, Null>>, <<2, 1, Null>>>>),
   \* one group only
   Tbl(<<Col("region", "object"), Col("sales", "number"), Col("cost", "number")>>,
       <<<<1, 1, 2>>, <<1, 2, 1>>, <<Null, 2, 2>>>>)}

\* fragments with more than one key set
ExtraConfigs ==
  {ConfigWith(
     [bar_chart |-> SetKey(SetKey(DefaultCharts.bar_chart, "aggregation", Str("count")),
                           "value_column", v),
      pie_chart |-> SetKey(SetKey(SetKey(DefaultCharts.pie_chart, "aggregation", Str("count")),
                                  "value_column", v), "top_n", IntV(3)),
      line_chart |-> DefaultCharts.line_chart]) :
     v \in {Str("auto"), Str("missing_col"), Str("sales")}}
  \cup
  {ConfigWith(SetKey(DefaultCharts, "line_chart",
     [enabled |-> BoolV(TRUE), x_column |-> Str("region"), y_columns |-> y])) :
     y \in {ListV(<<"sales", "cost">>), ListV(<<"cost", "sales">>), Str("sales")}}
  \cup
  \* the bar chart disabled with its columns named, no 'enabled' key for the pie
  {ConfigWith(
     [bar_chart |-> [enabled |-> BoolV(FALSE), category_column |-> Str("region"),
                     value_column |-> Str("sales")],
      pie_chart |-> DropKey(DefaultCharts.pie_chart, "enabled"),
      line_chart |-> DefaultCharts.line_chart])}

ChartInit ==
  /\ config_file \in ResolveConfigs \cup ExtraConfigs
  /\ \E tb \in ChartTables : source = [ok |-> TRUE, table |-> tb]

\* generate_report() called once with its default arguments
DefaultArgs == [output_formats |-> None, send_email |-> FALSE]

DirectCall ==
  /\ pc = "start"
  /\ args = DefaultArgs
  /\ sched = "none"
  /\ disk = {}

(* ----------------------- inputs: email family -------------------------- *)
SmtpSettings ==
  [enabled |-> BoolV(TRUE), smtp_server |-> Str("smtp.example.com"),
   sender_email |-> Str("a@example.com"), sender_password |-> Str("secret"),
   recipients |-> ListV(<<"b@example.com">>)]

\* 'email' sections: the default one, complete ones, one without password,
\* one without the 'enabled' key, and no section at all
EmailConfigs ==
  {get_default_config, DropKey(get_default_config, "email")}
  \cup
  {SetKey(get_default_config, "email", e) :
     e \in {SmtpSettings,
            SetKey(SmtpSettings, "enabled", Str("yes")),
            SetKey(SmtpSettings, "enabled", BoolV(FALSE)),
            DropKey(SmtpSettings, "enabled"),
            DropKey(SmtpSettings, "sender_password"),
            DropKey(SmtpSettings, "recipients")}}

\* generate_report(output_formats=..., send_email=...), on a source that
\* loads or does not
EmailInit ==
  /\ pc = "start"
  /\ sched = "none"
  /\ disk = {}
  /\ config_file \in EmailConfigs
  /\ source \in ScheduledSources
  /\ \E f \in {None, ListV(<<"pptx", "pdf">>), ListV(<<"pdf">>), ListV(<<>>)},
        s \in BOOLEAN : args = [output_formats |-> f, send_email |-> s]

(* ---------------------- inputs: mailer family -------------------------- *)
\* send_report_email called on its own, with one earlier report on disk
MailInit ==
  /\ pc = "mailer"
  /\ sched = "none"
  /\ args = DefaultArgs
  /\ disk = {[path |-> OldReport, run |-> 0]}
  /\ config_file = get_default_config
  /\ source = [ok |-> TRUE, table |-> EmptyFrame]

(* --------------------- inputs: scheduler family ------------------------ *)
\* 'schedule' sections: none, disabled, each frequency with and without its
\* keys, an unknown frequency, an unknown day and a malformed time
ScheduleConfigs ==
  {get_default_config}
  \cup
  {SetKey(get_default_config, "schedule", s) :
     s \in {[enabled |-> BoolV(FALSE)],
            [enabled |-> BoolV(FALSE), frequency |-> Str("daily")],
            [enabled |-> BoolV(TRUE)],
            [enabled |-> BoolV(TRUE), frequency |-> Str("daily"), time |-> Str("18:30")],
            [enabled |-> BoolV(TRUE), frequency |-> Str("daily"), time |-> Str("9am")],
            [enabled |-> BoolV(TRUE), frequency |-> Str("weekly")],
            [enabled |-> BoolV(TRUE), frequency |-> Str("weekly"), day |-> Str("Friday")],
            [enabled |-> BoolV(TRUE), frequency |-> Str("weekly"), day |-> Str("funday")],
            [enabled |-> BoolV(TRUE), frequency |-> Str("interval")],
            [enabled |-> BoolV(TRUE), frequency |-> Str("interval"),
             interval_minutes |-> IntV(30)],
            [enabled |-> BoolV(TRUE), frequency |-> Str("hourly")]}}

\* run_scheduled.main() is about to run
SchedInit ==
  /\ pc = "start"
  /\ sched = "main"
  /\ args = DefaultArgs
  /\ disk = {}
  /\ config_file \in ScheduleConfigs
  /\ source \in ScheduledSources

Init ==
  /\ \/ (ClassifyInit \/ ResolveInit \/ AggInit \/ ChartInit) /\ DirectCall
     \/ EmailInit
     \/ MailInit
     \/ SchedInit
  /\ run = 1
  /\ mail = <<>>
  /\ jobs = <<>>
  /\ results = <<>>
  /\ config = EmptyDict
  /\ df = EmptyFrame
  /\ summary = EmptyDict
  /\ detected = NoProfile
  /\ bar_conf = EmptyDict
  /\ pie_conf = EmptyDict
  /\ line_conf = EmptyDict
  /\ chart_paths = <<>>
  /\ chart_info = <<>>
  /\ rendered = <<>>
  /\ slides = <<>>
  /\ outputs = EmptyDict
  /\ pdf = <<>>

Spec == Init /\ [][Next]_vars

(* ============================ properties =============================== *)
\* auto_detect_columns has run
Profiled ==
  pc \notin {"start", "raised", "mailer", "mailed"} \/ (pc = "raised" /\ summary # EmptyDict)

Range(seq) == {seq[i] : i \in 1..Len(seq)}

\* number of non-null cells of the i-th column of df
NonNull(i) == Cardinality({r \in 1..Len(df.rows) : df.rows[r][i] # Null})

\* C1: no column name is in both the 'numeric' and the 'categorical' list of
\* the profile.
C1_NumericCategoricalDisjoint ==
  Profiled => Range(detected.numeric) \cap Range(detected.categorical) = {}

\* a profile with a numeric and a categorical column
C1_Witness ==
  Profiled /\ detected.numeric # <<>> /\ detected.categorical # <<>>

\* C2: a column of numeric kind is in 'numeric', and a column of text kind is
\* in 'categorical', exactly when its non-null count is strictly greater than
\* 30% of the row count (also for zero rows).
C2_ThresholdStrict ==
  Profiled =>
    \A i \in 1..Len(df.columns) :
      LET c == df.columns[i]
          over == 10 * NonNull(i) > 3 * Len(df.rows)
      IN /\ c.dtype = "number" => (c.name \in Range(detected.numeric) <=> over)
         /\ c.dtype \in {"object", "category"} =>
              (c.name \in Range(detected.categorical) <=> over)

\* a column with exactly 30% non-null cells is left out
C2_Witness ==
  /\ Profiled
  /\ \E i \in 1..Len(df.columns) :
       /\ df.columns[i].dtype \in {"number", "object"}
       /\ Len(df.rows) > 0
       /\ 10 * NonNull(i) = 3 * Len(df.rows)
       /\ df.columns[i].name \notin Range(detected.numeric) \cup Range(detected.categorical)

\* position of a column name in the table
Position(name) == CHOOSE i \in 1..Len(df.columns) : df.columns[i].name = name

KeepsColumnOrder(list) ==
  \A i, j \in 1..Len(list) : i < j => Position(list[i]) < Position(list[j])

\* C3: the lists keep the column order of the table, each 'best' value is the
\* first element of its list, and it is None exactly when the list is empty.
C3_OrderAndBest ==
  Profiled =>
    /\ KeepsColumnOrder(detected.numeric)
    /\ KeepsColumnOrder(detected.categorical)
    /\ (detected.numeric = <<>> <=> detected.best_numeric = None)
    /\ (detected.categorical = <<>> <=> detected.best_categorical = None)
    /\ detected.numeric # <<>> => detected.best_numeric = Str(detected.numeric[1])
    /\ detected.categorical # <<>> =>
         detected.best_categorical = Str(detected.categorical[1])

\* two numeric columns in table order and no categorical column
C3_Witness ==
  /\ Profiled
  /\ Len(detected.numeric) = 2
  /\ detected.best_numeric = Str(df.columns[1].name)
  /\ detected.best_categorical = None

\* the column names of the inputs that contain "date" or "time" when case is
\* ignored
DateLikeNames == {"Order_Date", "time_ms", "updated"}

\* C4: a column is date-like exactly when its name contains "date" or "time",
\* ignoring case, whatever its kind and however many of its cells are null.
C4_DateLikeByName ==
  Profiled =>
    \A i \in 1..Len(df.columns) :
      df.columns[i].name \in Range(detected.date) <=> df.columns[i].name \in DateLikeNames

\* an all-null column with an upper-case "Date" is date-like next to a
\* date-like column that is also numeric
C4_Witness ==
  /\ Profiled
  /\ Len(df.rows) > 0
  /\ \E i, j \in 1..Len(df.columns) :
       /\ df.columns[i].name = "Order_Date"
       /\ NonNull(i) = 0
       /\ "Order_Date" \in Range(detected.date)
       /\ df.columns[j].name \in Range(detected.date) \cap Range(detected.numeric)

\* the fragment of a chart type in the loaded configuration
Fragment(ct) == Get(Get(config, "charts", EmptyDict), ct, EmptyDict)

\* the resolved configuration of a chart type
Resolved(ct) ==
  CASE ct = "bar_chart" -> bar_conf
    [] ct = "pie_chart" -> pie_conf
    [] ct = "line_chart" -> line_conf

Explicit(v) == v # Str("auto") /\ v # None

\* C5: a key supplied with a value other than "auto" and null is returned by
\* get_chart_config with exactly that value, whatever the key is called.
C5_ExplicitPreserved ==
  \A ct \in ChartTypes :
    Resolved(ct) # EmptyDict =>
      \A key \in DOMAIN Fragment(ct) :
        Explicit(Fragment(ct)[key]) =>
          key \in DOMAIN Resolved(ct) /\ Resolved(ct)[key] = Fragment(ct)[key]

\* an explicit value under a key containing "category" that differs from the
\* best categorical column
C5_Witness ==
  \E ct \in ChartTypes :
    /\ Resolved(ct) # EmptyDict
    /\ \E key \in DOMAIN Fragment(ct) :
         /\ In("category", key)
         /\ Explicit(Fragment(ct)[key])
         /\ Truthy(detected.best_categorical)
         /\ Resolved(ct)[key] = Fragment(ct)[key]
         /\ Resolved(ct)[key] # detected.best_categorical

\* C6 as stated: for a key supplied as "auto", a name containing "category"
\* gives best_categorical and a name containing "value", or the name y_col,
\* gives best_numeric.
C6_AutoByKeyName ==
  \A ct \in ChartTypes :
    Resolved(ct) # EmptyDict =>
      \A key \in DOMAIN Fragment(ct) :
        Fragment(ct)[key] = Str("auto") =>
          /\ In("category", key) => Resolved(ct)[key] = detected.best_categorical
          /\ (In("value", key) \/ key = "y_col") =>
               Resolved(ct)[key] = detected.best_numeric

\* C6 amended: for a key supplied as "auto", a name containing "category"
\* gives best_categorical; a name that contains "value" and does not contain
\* "category", or the name y_col, gives best_numeric; either is None when the
\* profile has no such column.
C6_AutoByKeyNamePrecedence ==
  \A ct \in ChartTypes :
    Resolved(ct) # EmptyDict =>
      \A key \in DOMAIN Fragment(ct) :
        Fragment(ct)[key] = Str("auto") =>
          /\ In("category", key) =>
               Resolved(ct)[key] =
                 IF detected.categorical = <<>> THEN None ELSE Str(detected.categorical[1])
          /\ ((In("value", key) /\ ~In("category", key)) \/ key = "y_col") =>
               Resolved(ct)[key] =
                 IF detected.numeric = <<>> THEN None ELSE Str(detected.numeric[1])

\* an "auto" key whose name contains both "value" and "category" resolved to
\* the best categorical column, next to a different best numeric column
C6_Witness ==
  \E ct \in ChartTypes :
    /\ "value_category" \in DOMAIN Resolved(ct)
    /\ Fragment(ct)["value_category"] = Str("auto")
    /\ Truthy(detected.best_categorical)
    /\ Truthy(detected.best_numeric)
    /\ Resolved(ct)["value_category"] = detected.best_categorical

\* the calls of one renderer
Calls(fn) == {i \in 1..Len(rendered) : rendered[i].fn = fn}

\* C7: with at least two numeric columns, a line chart 'y_columns' of "auto"
\* is resolved to the list of the first three numeric columns, and the line
\* chart is drawn with them.
C7_YColumnsFirstThree ==
  (/\ "y_columns" \in DOMAIN line_conf
   /\ Fragment("line_chart")["y_columns"] = Str("auto")
   /\ Len(detected.numeric) >= 2) =>
    /\ line_conf["y_columns"] = ListV(Head_n(detected.numeric, 3))
    /\ \A i \in Calls("create_line_chart") :
         rendered[i].y = Head_n(detected.numeric, 3)

\* the bar chart step is over
BarDone == pc \in {"pie", "line", "assemble", "email", "done"}

\* C8: a column key that the bar fragment leaves out is resolved like "auto",
\* and the bar chart is built when both best columns exist.
C8_AbsentLikeAuto ==
  LET frag == Fragment("bar_chart")
  IN (BarDone /\ Truthy(Get(frag, "enabled", BoolV(TRUE)))) =>
       /\ "category_column" \notin DOMAIN frag =>
            Get(bar_conf, "category_column", None) = detected.best_categorical
       /\ "value_column" \notin DOMAIN frag =>
            Get(bar_conf, "value_column", None) = detected.best_numeric
       /\ ({"category_column", "value_column"} \cap DOMAIN frag = {}
           /\ Truthy(detected.best_categorical) /\ Truthy(detected.best_numeric)) =>
            Calls("create_bar_chart") # {}

\* the x column an "auto" x_column stands for
AutoXColumn ==
  IF detected.categorical # <<>> THEN Str(detected.categorical[1])
  ELSE IF detected.date # <<>> THEN Str(detected.date[1])
  ELSE None

\* the distinct non-null values of the column called name
Distinct(name) ==
  {df.rows[r][Position(name)] : r \in 1..Len(df.rows)} \ {Null}

KeptGroups(cat, val, agg) ==
  LET c == CHOOSE i \in 1..Len(df.columns) : df.columns[i].name = cat
  IN {df.rows[r][c] : r \in {q \in 1..Len(df.rows) :
        /\ df.rows[q][c] # Null
        /\ \/ agg \in {"count", "sum"}
           \/ \E q2 \in 1..Len(df.rows) :
                /\ df.rows[q2][c] = df.rows[q][c]
                /\ LET v == CHOOSE i \in 1..Len(df.columns) : df.columns[i].name = val
                   IN df.rows[q2][v] # Null}}

\* C10: the table given to the bar renderer is sorted by value, largest
\* first; it has at most top_n rows when top_n > 0 (15 when the key is
\* missing) and every group with a non-null aggregate when top_n <= 0.
C10_BarSortedTopN ==
  \A i \in Calls("create_bar_chart") :
    LET data == rendered[i].data
        top_n == Get(Fragment("bar_chart"), "top_n", IntV(15)).n
        agg == Get(Fragment("bar_chart"), "aggregation", Str("sum")).s
    IN /\ \A a, b \in 1..Len(data) : a < b => ~Greater(data[b].val, data[a].val)
       /\ top_n > 0 => Len(data) <= top_n
       /\ top_n <= 0 =>
            {data[a].label.key : a \in 1..Len(data)} =
              KeptGroups(rendered[i].x, rendered[i].y[1], agg)
       /\ top_n <= 0 =>
            Len(data) = Cardinality(KeptGroups(rendered[i].x, rendered[i].y[1], agg))

\* without a top_n key a table of more than 15 groups is cut to the 15
\* largest
C10_Witness ==
  /\ "top_n" \notin DOMAIN Fragment("bar_chart")
  /\ \E i \in Calls("create_bar_chart") :
       /\ Len(rendered[i].data) = 15
       /\ Cardinality(KeptGroups(rendered[i].x, rendered[i].y[1], "sum")) > 15
       /\ Greater(rendered[i].data[1].val, rendered[i].data[15].val)

\* the chart fragment a renderer call is made for
FragmentOf(fn) ==
  Fragment(CASE fn = "create_bar_chart" -> "bar_chart"
             [] fn = "create_pie_chart" -> "pie_chart"
             [] OTHER -> "line_chart")

\* number of rows of df whose column called name holds k
RowsWith(name, k) ==
  Cardinality({r \in 1..Len(df.rows) : df.rows[r][Position(name)] = k})

\* C11: with aggregation 'count' the value of every group row of the bar and
\* of the pie table is the number of rows of the dataset in that group, rows
\* with a null value cell included; and no group is left out of the bar table
\* for its value cells (the table has every group, up to top_n).
C11_CountCountsRows ==
  \A i \in Calls("create_bar_chart") \cup Calls("create_pie_chart") :
    LET frag == FragmentOf(rendered[i].fn)
        data == rendered[i].data
    IN Get(frag, "aggregation", Str("sum")) = Str("count") =>
         /\ \A a \in 1..Len(data) :
              ~data[a].label.other =>
                data[a].val = Val(RowsWith(rendered[i].x, data[a].label.key), 1)
         /\ rendered[i].fn = "create_bar_chart" =>
              LET top_n == Get(frag, "top_n", IntV(15)).n
                  groups == Cardinality(Distinct(rendered[i].x))
              IN Len(data) = IF top_n > 0 THEN Min(top_n, groups) ELSE groups

\* a counted group all of whose value cells are null
C11_Witness ==
  \E i \in Calls("create_bar_chart") :
    /\ Get(Fragment("bar_chart"), "aggregation", Str("sum")) = Str("count")
    /\ rendered[i].y = <<"sales">>
    /\ \E a \in 1..Len(rendered[i].data) :
         LET k == rendered[i].data[a].label.key
         IN /\ rendered[i].data[a].val.num >= 1
            /\ rendered[i].data[a].val.num = RowsWith("region", k)
            /\ \A r \in 1..Len(df.rows) :
                 df.rows[r][Position("region")] = k => df.rows[r][Position("sales")] = Null

\* a = b on aggregate values that are not NaN
Same(a, b) == a.num * b.den = b.num * a.den

\* the sum of the values of the rows of an aggregated table
RECURSIVE ValSum(_)
ValSum(table) ==
  IF table = <<>> THEN Val(0, 1)
  ELSE LET s == ValSum(Tail(table))
       IN Val(table[1].val.num * s.den + s.num * table[1].val.den,
              table[1].val.den * s.den)

\* the aggregated groups with a non-null value that renderer call i is made
\* from, in group order
GroupsOf(i) ==
  dropna(AggregatedTable(df, Str(rendered[i].x), Str(rendered[i].y[1]),
                         Get(FragmentOf(rendered[i].fn), "aggregation", Str("sum"))))

\* C12: when top_n > 0 (10 when the key is missing) and there are more
\* aggregated non-null groups than top_n, the pie table has exactly top_n
\* rows; the first top_n - 1 are groups, in descending order of value and no
\* smaller than any excluded group; the last row is labelled "Other" and
\* carries the sum of the excluded groups' values; and the values of the
\* table add up to the sum of all aggregated group values.
C12_PieOtherBucket ==
  \A i \in Calls("create_pie_chart") :
    LET data == rendered[i].data
        top_n == Get(Fragment("pie_chart"), "top_n", IntV(10)).n
        groups == GroupsOf(i)
        shown == {data[a].label.key : a \in 1..(Len(data) - 1)}
        excluded == SelectSeq(groups, LAMBDA g : g.label.key \notin shown)
    IN (top_n > 0 /\ Len(groups) > top_n) =>
         /\ Len(data) = top_n
         /\ data[top_n].label = OtherLabel
         /\ \A a \in 1..(top_n - 1) :
              /\ ~data[a].label.other
              /\ \E g \in 1..Len(groups) : groups[g] = data[a]
              /\ \A b \in (a + 1)..(top_n - 1) : ~Greater(data[b].val, data[a].val)
              /\ \A g \in 1..Len(excluded) : ~Greater(excluded[g].val, data[a].val)
         /\ Cardinality(shown) = top_n - 1
         /\ Len(excluded) = Len(groups) - (top_n - 1)
         /\ Same(data[top_n].val, ValSum(excluded))
         /\ Same(ValSum(data), ValSum(groups))

\* an "Other" row that stands for several groups, after several groups kept
C12_Witness ==
  \E i \in Calls("create_pie_chart") :
    LET data == rendered[i].data
    IN /\ Len(data) >= 3
       /\ data[Len(data)].label = OtherLabel
       /\ Len(GroupsOf(i)) >= Len(data) + 1
       /\ Greater(data[1].val, data[Len(data) - 1].val)
       /\ Greater(data[Len(data)].val, data[1].val)

\* C13: a pie chart whose category_column is configured with a value other
\* than "auto" is grouped by exactly that column.
C13_ExplicitPieCategory ==
  Explicit(Get(Fragment("pie_chart"), "category_column", None)) =>
    \A i \in Calls("create_pie_chart") :
      Str(rendered[i].x) = Fragment("pie_chart")["category_column"]

\* the categorical columns of the profile with 3 to 8 distinct values
Moderate ==
  SelectSeq(detected.categorical,
            LAMBDA col : Cardinality(Distinct(col)) \in 3..8)

\* the pie chart step is over
PieDone == pc \in {"line", "assemble", "email", "done"}

\* C14: with an auto-selected pie category, a pie chart is grouped by the
\* first categorical column of the profile with 3 to 8 distinct values, and
\* by best_categorical when there is none; it is drawn whenever the step
\* completes with a resolved category and value column; the bar chart with
\* an auto-selected category is grouped by best_categorical; and the
\* profile is still the one computed from the dataset.
C14_PieCardinalityPreference ==
  /\ Profiled => detected = auto_detect_columns(df)
  /\ ("category_column" \in DOMAIN Fragment("pie_chart")
      /\ ~Explicit(Fragment("pie_chart")["category_column"])) =>
       /\ \A i \in Calls("create_pie_chart") :
            rendered[i].x = IF Moderate # <<>> THEN Moderate[1]
                            ELSE detected.best_categorical.s
       /\ (/\ PieDone
           /\ Truthy(Get(Fragment("pie_chart"), "enabled", BoolV(TRUE)))
           /\ Truthy(detected.best_categorical)
           /\ Truthy(Get(pie_conf, "value_column", None))) =>
            Calls("create_pie_chart") # {}
  /\ ("category_column" \in DOMAIN Fragment("bar_chart")
      /\ ~Explicit(Fragment("bar_chart")["category_column"])) =>
       \A i \in Calls("create_bar_chart") : Str(rendered[i].x) = detected.best_categorical

\* best_categorical has 9 distinct values and the next categorical column
\* has 8: the pie chart is grouped by the latter, the bar chart by the former
C14_Witness ==
  /\ Get(Fragment("pie_chart"), "category_column", None) = Str("auto")
  /\ Get(Fragment("bar_chart"), "category_column", None) = Str("auto")
  /\ detected.categorical = <<"region", "status">>
  /\ Cardinality(Distinct("region")) = 9
  /\ Cardinality(Distinct("status")) = 8
  /\ \E i \in Calls("create_bar_chart") : rendered[i].x = "region"
  /\ \E i \in Calls("create_pie_chart") : rendered[i].x = "status"

\* t is the column name with every underscore turned into a space, the first
\* letter of every word a capital and all other letters small
HumanReadable(t, name) ==
  LET cs == Chars(name)
      letter(c) == IsUpper(c) \/ IsLower(c)
  IN /\ Len(t) = Len(cs)
     /\ \A i \in 1..Len(cs) :
          IF cs[i] = "_" THEN t[i] = " "
          ELSE /\ LowerChar(t[i]) = LowerChar(cs[i])
               /\ IF i = 1 \/ ~letter(cs[i - 1]) THEN ~IsLower(t[i]) ELSE ~IsUpper(t[i])

\* t is "<value column> by <category column>" in that form
ValueByCategory(t, val_col, cat_col) ==
  LET v == Len(Chars(val_col))
      c == Len(Chars(cat_col))
  IN /\ Len(t) = v + 4 + c
     /\ HumanReadable(SubSeq(t, 1, v), val_col)
     /\ SubSeq(t, v + 1, v + 4) = <<" ", "b", "y", " ">>
     /\ HumanReadable(SubSeq(t, v + 5, v + 4 + c), cat_col)

\* C15: a bar or pie chart whose title is "auto", null or missing is titled
\* "<value column> by <category column>" over the columns it was aggregated
\* by, underscores as spaces and words capitalised; such a line chart is
\* titled "Numeric Trends Comparison"; a configured non-empty title is used
\* as it is; and the slide of the chart carries the same title.
C15_Titles ==
  \A i \in 1..Len(rendered) :
    LET title == Get(FragmentOf(rendered[i].fn), "title", None)
    IN /\ (~Explicit(title) /\ rendered[i].fn # "create_line_chart") =>
            ValueByCategory(rendered[i].title, rendered[i].y[1], rendered[i].x)
       /\ (~Explicit(title) /\ rendered[i].fn = "create_line_chart") =>
            rendered[i].title =
              <<"N","u","m","e","r","i","c"," ","T","r","e","n","d","s"," ",
                "C","o","m","p","a","r","i","s","o","n">>
       /\ (Explicit(title) /\ title.t = "str" /\ title.s # "") =>
            rendered[i].title = Chars(title.s)
       /\ chart_info[i].title = rendered[i].title
       /\ pc = "done" => slides[i + 1].title = rendered[i].title

\* a default title over two column names with underscores
C15_Witness ==
  /\ Get(Fragment("bar_chart"), "title", None) = Str("auto")
  /\ \E i \in Calls("create_bar_chart") :
       /\ rendered[i].x = "Order_Date"
       /\ rendered[i].y = <<"time_ms">>
       /\ rendered[i].title =
            <<"T","i","m","e"," ","M","s"," ","b","y"," ",
              "O","r","d","e","r"," ","D","a","t","e">>

\* the artifacts recorded for one chart file
Artifacts(filename) ==
  {i \in 1..Len(chart_paths) : chart_paths[i] = ChartPath(filename)}
  \cup {i \in 1..Len(chart_info) : chart_info[i].path = ChartPath(filename)}
  \cup {i \in 1..Len(slides) : slides[i].path = ChartPath(filename)}

\* C16: when the numeric list of the profile has fewer than two columns, the
\* line renderer is not called and no line chart artifact is recorded,
\* whatever the line chart fragment holds.
C16_LineNeedsTwoNumeric ==
  Len(detected.numeric) < 2 =>
    /\ Calls("create_line_chart") = {}
    /\ Artifacts("line_chart.png") = {}

\* a finished run over one valid numeric column with x_column and y_columns
\* configured and present in the dataset: bar chart drawn, no line chart
C16_Witness ==
  /\ pc = "done"
  /\ Len(detected.numeric) = 1
  /\ Get(Fragment("line_chart"), "x_column", None) = Str("region")
  /\ Get(Fragment("line_chart"), "y_columns", None) = ListV(<<"sales", "cost">>)
  /\ HasColumn(df, "region") /\ HasColumn(df, "sales") /\ HasColumn(df, "cost")
  /\ Calls("create_bar_chart") # {}
  /\ Calls("create_line_chart") = {}
  /\ Len(slides) = 1 + Len(rendered)

\* the x column of the line chart block (line 258)
LineX == Or(Get(line_conf, "x_column", None), detected.best_categorical)

\* C17: a table given to the line renderer has at least 2 and at most 20
\* rows; and when the x column of the line chart has fewer than 2 groups, the
\* line renderer is not called and no line chart artifact is recorded.
C17_LineRowsBetween2And20 ==
  /\ \A i \in Calls("create_line_chart") :
       /\ Len(rendered[i].data) >= 2
       /\ Len(rendered[i].data) <= 20
       /\ Len(rendered[i].data) <= Cardinality(Distinct(rendered[i].x))
  /\ (/\ pc \in {"assemble", "email", "done"}
      /\ LineX.t = "str"
      /\ HasColumn(df, LineX.s)
      /\ Cardinality(Distinct(LineX.s)) < 2) =>
       /\ Calls("create_line_chart") = {}
       /\ Artifacts("line_chart.png") = {}

\* a line chart of 20 rows over an x column with more than 20 groups
C17_Witness ==
  \E i \in Calls("create_line_chart") :
    /\ Len(rendered[i].data) = 20
    /\ Cardinality(Distinct(rendered[i].x)) > 20

\* C18: when the x column has more than 20 groups, the rows of the line
\* chart are the 20 x values that appear first in the dataset.
C18_FirstTwentyInDatasetOrder ==
  \A i \in Calls("create_line_chart") :
    Cardinality(Distinct(rendered[i].x)) > 20 =>
      LET c == Position(rendered[i].x)
          \* the rows in which an x value appears for the first time
          first == {r \in 1..Len(df.rows) :
                     /\ df.rows[r][c] # Null
                     /\ \A q \in 1..(r - 1) : df.rows[q][c] # df.rows[r][c]}
          kept == {r \in first : Cardinality({q \in first : q <= r}) <= 20}
      IN {rendered[i].data[a].label.key : a \in 1..Len(rendered[i].data)} =
           {df.rows[r][c] : r \in kept}

\* C19: once the dataset has loaded the run does not abort: generate_report
\* raises only before the dataset and its summary exist.
C19_NoChartProblemAborts ==
  pc = "raised" => summary = EmptyDict

\* the fragment has the key, with "auto" or null
AutoKey(ct, key) ==
  key \in DOMAIN Fragment(ct) /\ ~Explicit(Fragment(ct)[key])

\* C20: when the bar and pie columns are left to auto-resolution and the
\* profile has no valid categorical or no valid numeric column, neither
\* renderer is called, no bar or pie artifact is recorded, and the run does
\* not abort.
C20_NoColumnsSkipsBarAndPie ==
  (/\ Profiled
   /\ \A ct \in {"bar_chart", "pie_chart"} :
        AutoKey(ct, "category_column") /\ AutoKey(ct, "value_column")
   /\ ~Truthy(detected.best_categorical) \/ ~Truthy(detected.best_numeric)) =>
    /\ Calls("create_bar_chart") = {}
    /\ Calls("create_pie_chart") = {}
    /\ Artifacts("bar_chart.png") = {}
    /\ Artifacts("pie_chart.png") = {}
    /\ pc # "raised"

\* generate_report is running or has ended (not send_report_email on its own)
InReport == pc \notin {"mailer", "mailed"}

\* the calls of send_report_email made by the current run
SentThisRun == {i \in 1..Len(mail) : mail[i].run = run}

\* the files written by the current run
WrittenThisRun == {f \in disk : f.run = run}

\* C21: when loading the dataset fails, generate_report ends by raising; in
\* that run no chart is rendered, no presentation or PDF is saved and
\* send_report_email is not called.
C21_LoadFailureAborts ==
  (InReport /\ ~source.ok) =>
    /\ pc \in {"start", "raised"}
    /\ rendered = <<>> /\ chart_paths = <<>>
    /\ slides = <<>> /\ pdf = <<>> /\ outputs = EmptyDict
    /\ WrittenThisRun = {}
    /\ SentThisRun = {}

\* a run asked to save both formats and to send the email, with email
\* enabled, has raised on a source that cannot be loaded
C21_Witness ==
  /\ ~source.ok /\ pc = "raised"
  /\ args.send_email /\ args.output_formats = ListV(<<"pptx", "pdf">>)
  /\ Truthy(Get(Get(config, "email", EmptyDict), "enabled", None))

\* C22: every table handed to the bar or the pie renderer has at least one
\* group.
C22_NoEmptyChart ==
  \A i \in Calls("create_bar_chart") \cup Calls("create_pie_chart") :
    Len(rendered[i].data) >= 1

\* C23: the profile is computed by the step that loads the dataset, from
\* that dataset; no step of the run from the first chart block to the end
\* changes the profile, the dataset or the configuration.
C23_ProfileAndConfigUnchanged ==
  [][/\ (pc = "start" /\ pc' = "bar") =>
          (df' = source.table /\ detected' = auto_detect_columns(df') /\ config' = config_file)
     /\ pc \in {"bar", "pie", "line", "assemble", "email"} =>
          (detected' = detected /\ config' = config /\ df' = df)]_vars

\* a finished run in which the pie chart left the best categorical column
\* for another one and a line chart was drawn
C23_Witness ==
  /\ pc = "done"
  /\ detected.best_categorical # None
  /\ \E i \in Calls("create_pie_chart") : Str(rendered[i].x) # detected.best_categorical
  /\ Calls("create_line_chart") # {}

\* C24: every chart of the presentation and of the PDF of a run was rendered
\* in that run, over a column of that run's dataset, and its file was written
\* by that run.
C24_OnlyThisRunsCharts ==
  (InReport /\ pc \in {"email", "done"}) =>
    \A p \in {slides[i].path : i \in 2..Len(slides)} \cup Range(pdf) :
      /\ \E j \in 1..Len(rendered) :
           /\ ChartPath(rendered[j].filename) = p
           /\ HasColumn(source.table, rendered[j].x)
      /\ [path |-> p, run |-> run] \in disk

\* the second run is finished with a chart in its presentation, the bar
\* chart file of the first run is still on disk, and the presentation of the
\* second run does not show it
C24_Witness ==
  /\ run = 2 /\ pc = "done"
  /\ Len(slides) >= 2
  /\ [path |-> ChartPath("bar_chart.png"), run |-> 1] \in disk
  /\ \A i \in 1..Len(slides) : slides[i].path # ChartPath("bar_chart.png")

\* server, sender address or password is given neither as argument nor in a
\* non-empty config
Missing(m, k) ==
  /\ ~Truthy(m.explicit[k])
  /\ \/ m.config = None
     \/ m.config = EmptyDict
     \/ ~Truthy(Get(m.config, k, None))

Incomplete(m) ==
  Missing(m, "smtp_server") \/ Missing(m, "sender_email") \/ Missing(m, "sender_password")

\* C25: no call of send_report_email raises; with server, sender address or
\* password missing it returns False and opens no connection; it returns
\* False when the exchange fails; it returns True only when the message was
\* sent; and when the message is sent, the attachments that exist are
\* attached and the others are left out.
C25_SendReportEmail ==
  \A i \in 1..Len(mail) :
    LET m == mail[i]
    IN /\ ~m.raised
       /\ Incomplete(m) => (~m.result /\ ~m.connected)
       /\ m.smtp # "sent" => ~m.result
       /\ m.result => (m.smtp = "sent" /\ m.connected)
       /\ (~Incomplete(m) /\ m.to.t = "list" /\ m.smtp = "sent") =>
            /\ m.result
            /\ m.attached = SelectSeq(m.attachments, LAMBDA a : Exists(disk, a))

\* a message was sent with the existing one of its two attachments
C25_Witness ==
  \E i \in 1..Len(mail) :
    /\ mail[i].attachments = <<LostReport, OldReport>>
    /\ mail[i].result
    /\ mail[i].attached = <<OldReport>>

\* C26: under the scheduler a raising run does not stop the loop: only an
\* error of the registration ends the program, the one job stays registered,
\* every run that ended has returned to the loop with None (raised) or with
\* its saved outputs, and the loop can start the next run.
C26_SchedulerSurvives ==
  /\ sched = "raised" => (pc = "start" /\ jobs = <<>> /\ run = 1)
  /\ sched = "loop" =>
       /\ Len(jobs) = 1
       /\ Len(results) = run - 1
       /\ \A i \in 1..Len(results) : results[i] = None \/ results[i] # EmptyDict
       /\ pc \in {"done", "raised"} => ENABLED JobReturns

\* a run that raised returned None, and the run after it has saved a report
C26_Witness ==
  /\ sched = "loop" /\ run = 2 /\ pc = "done"
  /\ results = <<None>>
  /\ outputs # EmptyDict

\* the fixed order of the chart files
ChartOrder ==
  <<ChartPath("bar_chart.png"), ChartPath("pie_chart.png"), ChartPath("line_chart.png")>>

OrderIndex(p) == CHOOSE k \in 1..3 : ChartOrder[k] = p

\* C27: the chart paths are a part of bar, pie, line in this order without
\* repetition; the renderer calls, the path list and the info list agree
\* entry by entry; the slides are the summary slide followed by one slide per
\* info entry in the same order.
C27_OrderOfArtifacts ==
  InReport =>
    /\ \A i \in 1..Len(chart_paths) : chart_paths[i] \in Range(ChartOrder)
    /\ \A i \in 1..Len(chart_paths) : \A j \in 1..Len(chart_paths) :
         i < j => OrderIndex(chart_paths[i]) < OrderIndex(chart_paths[j])
    /\ Len(chart_info) = Len(chart_paths) /\ Len(rendered) = Len(chart_paths)
    /\ \A i \in 1..Len(chart_paths) :
         /\ chart_info[i].path = chart_paths[i]
         /\ ChartPath(rendered[i].filename) = chart_paths[i]
    /\ IF pc \in {"email", "done"} \/ slides # <<>>
       THEN /\ Len(slides) = 1 + Len(chart_info)
            /\ slides[1] = [title |-> Chars("Data Summary"), path |-> <<>>]
            /\ \A i \in 1..Len(chart_info) :
                 /\ slides[i + 1].path = chart_info[i].path
                 /\ slides[i + 1].title = chart_info[i].title
       ELSE slides = <<>>

\* a finished run with the three charts
C27_Witness ==
  /\ pc = "done"
  /\ chart_paths = ChartOrder
  /\ Len(slides) = 4

\* the formats the run was asked for
Requested ==
  {f \in {"pptx", "pdf"} : f \in Range(OutputFormats(args, config))}

\* C28: in a run that got as far as saving its outputs, send_report_email is
\* called exactly when the send_email argument is true and email.enabled of
\* the configuration is truthy; it is called at most once and only at the
\* end, when every requested output is on disk; its attachments are the paths
\* that the run returns; whatever the delivery gives, the run ends normally
\* with these outputs.
C28_EmailWhenRequested ==
  InReport =>
    /\ pc = "done" =>
         (SentThisRun # {} <=>
            /\ args.send_email
            /\ "email" \in DOMAIN config
            /\ Truthy(Get(config["email"], "enabled", None)))
    /\ Cardinality(SentThisRun) <= 1
    /\ \A i \in SentThisRun :
         /\ pc = "done"
         /\ DOMAIN outputs = Requested
         /\ \A f \in Requested :
              outputs[f] = ReportPath(run, f) /\ Exists(disk, outputs[f])
         /\ mail[i].attachments = Values(outputs)

\* the delivery of an email with two attachments failed at authentication
\* and the run ended normally
C28_Witness ==
  /\ pc = "done" /\ InReport
  /\ \E i \in SentThisRun :
       /\ mail[i].smtp = "auth_error" /\ ~mail[i].result
       /\ Len(mail[i].attachments) = 2

ChartFn(ct) ==
  CASE ct = "bar_chart" -> "create_bar_chart"
    [] ct = "pie_chart" -> "create_pie_chart"
    [] ct = "line_chart" -> "create_line_chart"

ChartFile(ct) ==
  CASE ct = "bar_chart" -> "bar_chart.png"
    [] ct = "pie_chart" -> "pie_chart.png"
    [] ct = "line_chart" -> "line_chart.png"

\* C29: a chart type whose fragment has enabled = false is not rendered and
\* leaves no artifact; a bar or pie fragment without 'enabled' key whose
\* category and value columns are resolved is rendered.
C29_EnabledFlag ==
  InReport =>
    /\ \A ct \in ChartTypes :
         Get(Fragment(ct), "enabled", None) = BoolV(FALSE) =>
           (Calls(ChartFn(ct)) = {} /\ Artifacts(ChartFile(ct)) = {})
    /\ (/\ BarDone
        /\ "enabled" \notin DOMAIN Fragment("bar_chart")
        /\ Truthy(Get(bar_conf, "category_column", None))
        /\ Truthy(Get(bar_conf, "value_column", None))) =>
         Calls("create_bar_chart") # {}
    /\ (/\ PieDone
        /\ "enabled" \notin DOMAIN Fragment("pie_chart")
        /\ Truthy(Get(pie_conf, "category_column", None))
        /\ Truthy(Get(pie_conf, "value_column", None))) =>
         Calls("create_pie_chart") # {}

\* a finished run whose bar chart is disabled with both columns named and
\* present in the dataset, and whose pie fragment has no 'enabled' key
C29_Witness ==
  /\ pc = "done"
  /\ Get(Fragment("bar_chart"), "enabled", None) = BoolV(FALSE)
  /\ Truthy(Get(bar_conf, "category_column", None))
  /\ Truthy(Get(bar_conf, "value_column", None))
  /\ Fragment("pie_chart") # EmptyDict
  /\ "enabled" \notin DOMAIN Fragment("pie_chart")
  /\ Calls("create_pie_chart") # {}

\* the 'schedule' section of the configuration
ScheduleSection == Get(config_file, "schedule", EmptyDict)

\* C30: once the scheduler loop has started, exactly one job is registered,
\* of the configured frequency (daily when none is given), and scheduling is
\* enabled; with scheduling disabled or a frequency other than daily, weekly
\* and interval the loop is never started, no job is registered and no
\* report run starts.
C30_OneJobBeforeLoop ==
  sched # "none" =>
    /\ sched = "main" => (jobs = <<>> /\ pc = "start" /\ run = 1)
    /\ sched = "loop" =>
         /\ Truthy(Get(ScheduleSection, "enabled", None))
         /\ Len(jobs) = 1
         /\ Str(jobs[1].kind) = Get(ScheduleSection, "frequency", Str("daily"))
         /\ jobs[1].kind \in {"daily", "weekly", "interval"}
         /\ jobs[1].report_function = "generate_report"
    /\ (\/ ~Truthy(Get(ScheduleSection, "enabled", None))
        \/ Get(ScheduleSection, "frequency", Str("daily")) \notin
             {Str("daily"), Str("weekly"), Str("interval")}) =>
         /\ sched \in {"main", "exited"}
         /\ jobs = <<>>
         /\ pc = "start" /\ run = 1
         /\ rendered = <<>> /\ outputs = EmptyDict /\ disk = {}

\* a weekly job on the configured day is registered and the first run has
\* ended
C30_Witness ==
  /\ sched = "loop" /\ pc = "done"
  /\ jobs[1].kind = "weekly" /\ jobs[1].day = "friday"

\* main has exited on an unknown frequency
C30_WitnessExit ==
  /\ sched = "exited"
  /\ Get(ScheduleSection, "frequency", None) = Str("hourly")

====
